---------------------------- MODULE Spec2Model ----------------------------
(***************************************************************************)
(* A model of script.js, the script of the portfolio page: the placeholder *)
(* resolver, the content assembly, the project cards and the showcase      *)
(* (setVideo, selectProject, activateCard, renderProjects) and the locale  *)
(* change.                                                                  *)
(*                                                                         *)
(* Text.  A JavaScript string is a sequence of atoms.  The atoms "{", "}"  *)
(* and " " are the characters the code inspects one by one; every other    *)
(* atom stands for a fixed non-empty run of characters that holds no       *)
(* brace and no white space.  "http" is the only atom that starts with     *)
(* the characters h-t-t-p, and no atom holds part of a host name the code  *)
(* searches for.                                                           *)
(*                                                                         *)
(* Values.  A JavaScript value is a record tagged by t: undefined, null,   *)
(* boolean, string, array, object, function.  An object's v is a function  *)
(* from property names (strings, so sequences of atoms) to values.         *)
(***************************************************************************)
EXTENDS Integers, Sequences, FiniteSets, TLC

VARIABLES
    settings,     \* let settings (script.js:15)
    strings,      \* let strings (script.js:16)
    profile,      \* let profile (script.js:17)
    projects,     \* let projects (script.js:18)
    lang,         \* localStorage 'lang': null or a locale code
    dom,          \* the showcase and the project cards (see below)
    pc,           \* where init() stands: "loading", "loaded", "ready"
    pending,      \* the applyLanguageChange calls awaiting a load, by locale and file
    fileProjects, \* history: projects as loadSettingsAndContent left it at line 505
    rawStrings,   \* history: the document last assigned to strings, unresolved
    last,         \* history: the handler that ran last, the card it was given,
                  \* whether the iframe had a src when it started, and the
                  \* timeout that has fired since (if one has)
    fetched,      \* history: what the loads of the last content assembly returned
    world,        \* the surroundings of a run: the files the server may answer
                  \* with, whether the user lets every embed timeout pass
                  \* before acting again, the elements of the page shell, and
                  \* which of its texts (data-i18n keys, hero title, pressed
                  \* language button) are followed in dom
    theme,        \* the theme markers of the page and localStorage 'theme'
    doc,          \* resolver harness: the document handed to replacePlaceholders
    prof,         \* resolver harness: the profile handed to replacePlaceholders
    out,          \* resolver harness: the results of the successive applications
    call          \* loader harness: one call of loadJson and the assignment after it

pageVars == <<settings, strings, profile, projects, lang, dom, pc, pending,
              fileProjects, rawStrings, last, fetched, world, theme>>
resolveVars == <<doc, prof, out>>
loadVars == <<call>>
vars == <<settings, strings, profile, projects, lang, dom, pc, pending,
          fileProjects, rawStrings, last, fetched, doc, prof, out, call, world, theme>>

(***************************************************************************)
(* JavaScript values                                                       *)
(***************************************************************************)
Undef == [t |-> "undefined"]
Null == [t |-> "null"]
Bool(b) == [t |-> "boolean", v |-> b]
Str(s) == [t |-> "string", v |-> s]
Arr(a) == [t |-> "array", v |-> a]
Obj(f) == [t |-> "object", v |-> f]
Fn == [t |-> "function"]
EmptyStr == Str(<< >>)
EmptyObj == Obj(<< >>)

\* the property named by the one-atom string a
N(a) == <<a>>
\* a one-atom string
T(a) == Str(<<a>>)

\* what `if (x)`, `!x`, `x || y` test
Truthy(x) ==
    CASE x.t = "undefined" -> FALSE
      [] x.t = "null" -> FALSE
      [] x.t = "boolean" -> x.v
      [] x.t = "string" -> x.v # << >>
      [] OTHER -> TRUE

\* a || b
Or(a, b) == IF Truthy(a) THEN a ELSE b

\* the names every object literal and every JSON.parse result inherits
ObjectPrototypeNames ==
    {N("constructor"), N("toString"), N("toLocaleString"), N("valueOf"),
     N("hasOwnProperty"), N("isPrototypeOf"), N("propertyIsEnumerable")}

\* o[k] for an object o: own properties first, then Object.prototype
Prop(o, k) ==
    IF o.t # "object" THEN Undef
    ELSE IF k \in DOMAIN o.v THEN o.v[k]
    ELSE IF k \in ObjectPrototypeNames THEN Fn
    ELSE Undef

\* String(x), as a replace callback's result or setAttribute's argument is
\* converted (arrays are not used where a conversion happens)
ToStr(x) ==
    CASE x.t = "string" -> x.v
      [] x.t = "undefined" -> <<"undefined">>
      [] x.t = "null" -> <<"null">>
      [] x.t = "boolean" -> IF x.v THEN <<"true">> ELSE <<"false">>
      [] x.t = "function" -> <<"function", " ", "Object()", " ", "{", " ", "[native", " ", "code]", " ", "}">>
      [] OTHER -> <<"[object", " ", "Object]">>

(***************************************************************************)
(* String helpers                                                          *)
(***************************************************************************)
IsSpace(a) == a = " "

RECURSIVE TrimLeft(_)
TrimLeft(s) == IF s # << >> /\ IsSpace(Head(s)) THEN TrimLeft(Tail(s)) ELSE s

RECURSIVE TrimRight(_)
TrimRight(s) ==
    IF s # << >> /\ IsSpace(s[Len(s)]) THEN TrimRight(SubSeq(s, 1, Len(s) - 1)) ELSE s

\* String.prototype.trim
Trim(s) == TrimRight(TrimLeft(s))

\* the first index >= i of s that holds atom a, or 0
RECURSIVE IndexFrom(_, _, _)
IndexFrom(s, a, i) ==
    IF i > Len(s) THEN 0
    ELSE IF s[i] = a THEN i
    ELSE IndexFrom(s, a, i + 1)

\* s.includes(needle)
Includes(s, needle) ==
    \E i \in 1..(Len(s) - Len(needle) + 1) : SubSeq(s, i, i + Len(needle) - 1) = needle

\* s.startsWith(prefix)
StartsWith(s, prefix) ==
    Len(s) >= Len(prefix) /\ SubSeq(s, 1, Len(prefix)) = prefix

(***************************************************************************)
(* replacePlaceholders                                                     *)
(***************************************************************************)
\* A variant of placeholderMatch that takes one brace as a delimiter.
singleBraceMatch(s, i) ==
    LET e == IndexFrom(s, "}", i + 1)
    IN IF i <= Len(s) /\ s[i] = "{" /\ e > i + 1
       THEN [ok |-> TRUE, key |-> Trim(SubSeq(s, i + 1, e - 1)), end |-> e]
       ELSE [ok |-> FALSE, key |-> << >>, end |-> 0]

\* The match of /{{\s*([^}]+)\s*}}/ that starts at index i of s, if there
\* is one: "{{", then a non-empty run without "}", then "}}".  The run is
\* shared between \s*, the group and \s*, and the callback trims the
\* group, so the key is the trimmed run.
placeholderMatch(s, i) ==
    LET e == IndexFrom(s, "}", i + 2)
    IN IF i + 1 <= Len(s) /\ s[i] = "{" /\ s[i + 1] = "{"
          /\ e > i + 2 /\ e + 1 <= Len(s) /\ s[e + 1] = "}"
       THEN [ok |-> TRUE, key |-> Trim(SubSeq(s, i + 2, e - 1)), end |-> e + 1]
       ELSE [ok |-> FALSE, key |-> << >>, end |-> 0]

\* The replace callback: the three aliases, then profile[key], each `|| ''`.
placeholderValue(key, profl) ==
    CASE key = N("full_name_from_external_file") -> ToStr(Or(Prop(profl, N("fullName")), EmptyStr))
      [] key = N("email_from_external_file") -> ToStr(Or(Prop(profl, N("email")), EmptyStr))
      [] key = N("phone_from_external_file") -> ToStr(Or(Prop(profl, N("phone")), EmptyStr))
      [] OTHER -> ToStr(Or(Prop(profl, key), EmptyStr))

\* obj.replace(/.../g, callback) from index i on: the matches are taken
\* left to right, none overlapping, and the replacement is not rescanned.
RECURSIVE replaceFrom(_, _, _)
replaceFrom(s, i, profl) ==
    IF i > Len(s) THEN << >>
    ELSE LET m == placeholderMatch(s, i)
         IN IF m.ok
            THEN placeholderValue(m.key, profl) \o replaceFrom(s, m.end + 1, profl)
            ELSE <<s[i]>> \o replaceFrom(s, i + 1, profl)

RECURSIVE replacePlaceholders(_, _)
replacePlaceholders(obj, profl) ==
    IF ~Truthy(obj) THEN obj
    ELSE CASE obj.t = "string" -> Str(replaceFrom(obj.v, 1, profl))
           [] obj.t = "array" ->
                Arr([i \in DOMAIN obj.v |-> replacePlaceholders(obj.v[i], profl)])
           [] obj.t = "object" ->
                Obj([k \in DOMAIN obj.v |-> replacePlaceholders(obj.v[k], profl)])
           [] OTHER -> obj

(***************************************************************************)
(* URLs                                                                    *)
(***************************************************************************)
\* The URL parser writes host names in lower case.
LowerAtom(a) == IF a = "KRONOS-LIVE" THEN "kronos-live" ELSE a

\* the atoms that end the host of a URL
IsHostEnd(a) == a \in {"/", "?", "#"}

RECURSIVE HostLen(_, _)
HostLen(s, i) ==
    IF i > Len(s) \/ IsHostEnd(s[i]) THEN 0 ELSE 1 + HostLen(s, i + 1)

\* new URL(s) for the strings of the model: white space around the input
\* is dropped; "http" or "https", "://" and a non-empty host without
\* white space must follow, or the constructor throws (ok = FALSE).
\* HostStart is the index the host starts at in the trimmed input, or 0.
HostStart(t) ==
    IF Len(t) >= 2 /\ t[1] = "http" /\ t[2] = "://" THEN 3
    ELSE IF Len(t) >= 3 /\ t[1] = "http" /\ t[2] = "s" /\ t[3] = "://" THEN 4
    ELSE 0

HostOf(t, from) ==
    IF from = 0 THEN << >> ELSE SubSeq(t, from, from + HostLen(t, from) - 1)

UrlOfHost(host) ==
    IF host # << >> /\ \A i \in 1..Len(host) : ~IsSpace(host[i])
    THEN [ok |-> TRUE, hostname |-> [i \in 1..Len(host) |-> LowerAtom(host[i])]]
    ELSE [ok |-> FALSE, hostname |-> << >>]

ParseTrimmed(t) == UrlOfHost(HostOf(t, HostStart(t)))

ParseURL(s) == ParseTrimmed(Trim(s))

KronosHost == <<"kronos-live", ".", "pages", ".", "dev">>
ALLOWED_EMBED_HOSTS == { KronosHost }

\* u.hostname.replace(/^www\./, '')
WithoutWww(hostname) ==
    IF StartsWith(hostname, <<"www", ".">>)
    THEN SubSeq(hostname, 3, Len(hostname))
    ELSE hostname

\* the try and the catch of friendlyLabelForUrl, for a parsed url
LabelOf(url, u) == IF u.ok THEN WithoutWww(u.hostname) ELSE url

\* friendlyLabelForUrl: the host name without a leading "www.", or the
\* raw string when it is no URL
friendlyLabelForUrl(url) ==
    IF url = << >> THEN << >> ELSE LabelOf(url, ParseURL(url))

(***************************************************************************)
(* Project cards                                                           *)
(***************************************************************************)
\* s.replace(needle, repl) with a string pattern: the first occurrence
ReplaceFirst(s, needle, repl) ==
    IF ~Includes(s, needle) THEN s
    ELSE LET i == CHOOSE k \in 1..Len(s) :
                    /\ k + Len(needle) - 1 <= Len(s)
                    /\ SubSeq(s, k, k + Len(needle) - 1) = needle
                    /\ \A j \in 1..(k - 1) :
                           SubSeq(s, j, j + Len(needle) - 1) # needle
         IN SubSeq(s, 1, i - 1) \o repl \o SubSeq(s, i + Len(needle), Len(s))

IdToken == <<"{", "{", "id", "}", "}">>

\* a || b || c ... over a sequence of values, '' when none is truthy
RECURSIVE FirstTruthy(_)
FirstTruthy(vs) ==
    IF vs = << >> THEN EmptyStr
    ELSE IF Truthy(vs[1]) THEN vs[1]
    ELSE FirstTruthy(Tail(vs))

\* an attribute that was never set reads as null
NoAttr == Null
Attr(x) == Str(ToStr(x))

\* buildProjectCard(p, idx): the card's attributes and texts (idx from 0)
buildProjectCard(p, idx, strs) ==
    LET videoId == FirstTruthy(<<Prop(p, N("videoId")), Prop(p, N("video_id")),
                                 Prop(p, N("youtube_id")), Prop(p, N("youtubeId")),
                                 Prop(p, N("video_url")), Prop(p, N("embed")),
                                 Prop(p, N("embed_url"))>>)
        ytEmbed == Prop(p, N("youtube_embed"))
        ytId == Prop(p, N("youtube_id"))
        youtube ==
            IF Truthy(ytEmbed) /\ Includes(ytEmbed.v, IdToken) /\ Truthy(ytId)
            THEN Str(ReplaceFirst(ytEmbed.v, IdToken, ToStr(ytId)))
            ELSE IF Truthy(ytEmbed) /\ ~Includes(ytEmbed.v, IdToken)
            THEN Attr(ytEmbed)
            ELSE NoAttr
        demoLink ==
            IF Truthy(Prop(p, N("demo_link"))) THEN Attr(Prop(p, N("demo_link")))
            ELSE IF Truthy(Prop(p, N("demoLink"))) THEN Attr(Prop(p, N("demoLink")))
            ELSE IF Truthy(Prop(p, N("link"))) THEN Attr(Prop(p, N("link")))
            ELSE IF Truthy(Prop(p, N("repo_link"))) THEN Attr(Prop(p, N("repo_link")))
            ELSE NoAttr
        titleKey == Prop(p, N("titleKey"))
        descKey == Prop(p, N("descKey"))
        projectTitle ==
            Or(Prop(p, N("title")),
               IF Truthy(titleKey) THEN Prop(strs, ToStr(titleKey)) ELSE EmptyStr)
        projectLong == FirstTruthy(<<Prop(p, N("long_description")), Prop(p, N("longDescription"))>>)
        h3Text ==
            IF Truthy(titleKey)
            THEN FirstTruthy(<<Prop(strs, ToStr(titleKey)), titleKey, T("Project")>>)
            ELSE FirstTruthy(<<Prop(p, N("title")), titleKey, T("Project")>>)
        pText ==
            IF Truthy(descKey)
            THEN FirstTruthy(<<Prop(strs, ToStr(descKey)), descKey>>)
            ELSE FirstTruthy(<<Prop(p, N("short_description")), descKey>>)
    IN [ videoId |-> Attr(videoId),
         youtube |-> youtube,
         demoLink |-> demoLink,
         projectId |-> IF Truthy(Prop(p, N("id"))) THEN Attr(Prop(p, N("id")))
                       ELSE Str(<<"p", ToString(idx)>>),
         title |-> Attr(projectTitle),
         long |-> Attr(projectLong),
         i18nTitle |-> IF Truthy(titleKey) THEN Attr(titleKey) ELSE NoAttr,
         i18nDesc |-> IF Truthy(descKey) THEN Attr(descKey) ELSE NoAttr,
         h3Text |-> ToStr(h3Text),
         pText |-> ToStr(pText),
         image |-> IF Truthy(Prop(p, N("image"))) THEN Attr(Prop(p, N("image"))) ELSE NoAttr,
         ariaLabel |-> ToStr(h3Text),
         active |-> FALSE,
         ariaPressed |-> NoAttr ]

\* getAttribute(name) || ''
AttrOrEmpty(a) == IF Truthy(a) THEN a.v ELSE << >>

(***************************************************************************)
(* The showcase.  The document is a record d:                              *)
(*   cards      the project cards of .projects-grid, in document order     *)
(*   iframeSrc  the src attribute of #ytFrame                              *)
(*   imgSrc, imgHidden    #projectImg's src and its class 'hidden'         *)
(*   demoHref, demoHidden, demoText, demoCta   #projectDemoLink's href,    *)
(*              class 'hidden', text and class 'cta-btn'                   *)
(*   selTitle, selDesc    the texts of .selected-project-title / -desc     *)
(*   plan       the locals url and useIframe of the last setVideo call     *)
(*   timers     the timeouts set by setVideo and not yet fired, oldest     *)
(*              first: the id of the call and what its listeners have      *)
(*              heard of the iframe ("waiting", "loaded", "errored")       *)
(***************************************************************************)
\* projectId === 'kronos_live' || u.hostname.includes('kronos-live.pages.dev')
\* in the try, projectId === 'kronos_live' in the catch
IsPartnerDemo(projectId, u) ==
    projectId = <<"kronos_live">> \/ (u.ok /\ Includes(u.hostname, KronosHost))

\* the open-demo link is shown for every card with a demo link
showDemoForAnyLink(card) == AttrOrEmpty(card.demoLink) # << >>

\* showDemo: the open-demo link is shown for a card with a demo link whose
\* project id is kronos_live or whose demo host holds kronos-live.pages.dev
showDemoFor(card) ==
    /\ AttrOrEmpty(card.demoLink) # << >>
    /\ IsPartnerDemo(AttrOrEmpty(card.projectId), ParseURL(AttrOrEmpty(card.demoLink)))

\* the indices of the active cards, and the first of them in document
\* order (0 when there is none): querySelector('.project-card.active')
ActiveCards(d) == { i \in DOMAIN d.cards : d.cards[i].active }
MinOrZero(S) == IF S = {} THEN 0 ELSE CHOOSE i \in S : \A j \in S : i <= j
FirstActive(d) == MinOrZero(ActiveCards(d))

\* strings['open_demo'] || strings['view_demo'] || 'Open demo'
OpenDemoLabel(strs) ==
    ToStr(FirstTruthy(<<Prop(strs, N("open_demo")), Prop(strs, N("view_demo")),
                        Str(<<"Open", " ", "demo">>)>>))

\* friendly || strings['open_demo'] || ...
LabelOr(friendly, strs) == IF friendly # << >> THEN friendly ELSE OpenDemoLabel(strs)

\* selectProject, lines 316-323: card i alone is active, and the panels
\* carry its title and long description
markSelected(d, i) ==
    [d EXCEPT !.cards = [j \in DOMAIN d.cards |->
                           [d.cards[j] EXCEPT !.active = (j = i),
                                              !.ariaPressed = IF j = i THEN T("true")
                                                              ELSE T("false")]],
              !.selTitle = AttrOrEmpty(d.cards[i].title),
              !.selDesc = AttrOrEmpty(d.cards[i].long)]

\* selectProject, lines 324-353: the open-demo link
showDemoLink(d, card, strs) ==
    IF showDemoFor(card)
    THEN [d EXCEPT !.demoHref = AttrOrEmpty(card.demoLink),
                   !.demoCta = TRUE,
                   !.demoHidden = FALSE,
                   !.demoText = LabelOr(friendlyLabelForUrl(AttrOrEmpty(card.demoLink)), strs)]
    ELSE [d EXCEPT !.demoHref = << >>,
                   !.demoHidden = TRUE,
                   !.demoText = << >>]

\* data-video-id || data-youtube || data-demo-link ('' when none is set)
firstVid(card) == FirstTruthy(<<card.videoId, card.youtube, card.demoLink>>)

\* A variant of showImageOrHide that never shows the still image.
hideStillImage(d, card) == [d EXCEPT !.imgSrc = << >>, !.imgHidden = TRUE]

\* selectProject, lines 354-366: the still image of a card without media
showImageOrHide(d, card) ==
    IF ~Truthy(firstVid(card)) /\ AttrOrEmpty(card.image) # << >>
    THEN [d EXCEPT !.iframeSrc = << >>, !.imgSrc = AttrOrEmpty(card.image),
                   !.imgHidden = FALSE]
    ELSE [d EXCEPT !.imgSrc = << >>, !.imgHidden = TRUE]

\* selectProject(card, scroll) for the card at index i of d.cards
selectProject(d, i, strs) ==
    showImageOrHide(showDemoLink(markSelected(d, i), d.cards[i], strs), d.cards[i])

YouTubeEmbedPrefix ==
    <<"http", "s", "://", "www", ".", "youtube", ".", "com", "/", "embed", "/">>

\* A variant of youtubeEmbedUrl with the autoplay flag inverted.
embedUrlFlagInverted(id, autoplay) ==
    YouTubeEmbedPrefix \o id \o <<"?", "rel=0", "&", "autoplay=">>
        \o <<IF Truthy(autoplay) THEN "0" ELSE "1">>

\* `https://www.youtube.com/embed/${id}?rel=0&autoplay=${autoplay ? 1 : 0}`
youtubeEmbedUrl(id, autoplay) ==
    YouTubeEmbedPrefix \o id \o <<"?", "rel=0", "&", "autoplay=">>
        \o <<IF Truthy(autoplay) THEN "1" ELSE "0">>

\* A variant of hostIsEmbeddable without the partner whitelist.
hostIsVideoSite(host) ==
    \/ Includes(host, <<"youtube", ".", "com">>)
    \/ Includes(host, <<"youtu", ".", "be">>)
    \/ Includes(host, <<"vimeo", ".", "com">>)

\* the condition of line 172 on the host name
hostIsEmbeddable(host) ==
    \/ Includes(host, <<"youtube", ".", "com">>)
    \/ Includes(host, <<"youtu", ".", "be">>)
    \/ Includes(host, <<"vimeo", ".", "com">>)
    \/ Includes(host, <<"player", ".", "vimeo", ".", "com">>)
    \/ host \in ALLOWED_EMBED_HOSTS

\* A variant of canEmbed that embeds every URL that parses.
canEmbedAnyHost(u) == u.ok

\* the try and the catch of lines 168-179
canEmbed(u) == u.ok /\ hostIsEmbeddable(u.hostname)

\* setVideo, lines 160-179: the locals url and useIframe for a non-empty id
classify(id, autoplay) ==
    IF ~StartsWith(id, <<"http">>)
    THEN [url |-> youtubeEmbedUrl(id, autoplay), useIframe |-> TRUE]
    ELSE [url |-> id, useIframe |-> canEmbed(ParseURL(id))]

NoPlan == [id |-> << >>, url |-> << >>, useIframe |-> FALSE]
planOf(id, c) == [id |-> id, url |-> c.url, useIframe |-> c.useIframe]

\* selected && selected.getAttribute('data-image'), '' when there is none
imageOf(d, k) == IF k = 0 THEN << >> ELSE AttrOrEmpty(d.cards[k].image)

\* setVideo, lines 181-229: the media surface shows p.url, or is cleared
\* and the still image of the active card shown
showMedia(d, p) ==
    IF ~p.useIframe
    THEN IF imageOf(d, FirstActive(d)) # << >>
         THEN [d EXCEPT !.iframeSrc = << >>, !.imgSrc = imageOf(d, FirstActive(d)),
                        !.imgHidden = FALSE, !.plan = p]
         ELSE [d EXCEPT !.iframeSrc = << >>, !.imgHidden = TRUE, !.plan = p]
    ELSE [d EXCEPT !.imgSrc = << >>, !.imgHidden = TRUE, !.iframeSrc = p.url, !.plan = p,
                   !.timers = Append(@, [id |-> p.id, status |-> "waiting"])]

\* setVideo, lines 230-239: every card one of whose three attributes is
\* the id becomes active, every other card inactive
isMatch(c, id) == c.videoId = Str(id) \/ c.demoLink = Str(id) \/ c.youtube = Str(id)
markMatching(d, id) ==
    [d EXCEPT !.cards =
        [j \in DOMAIN d.cards |->
            [d.cards[j] EXCEPT !.active = isMatch(d.cards[j], id),
                               !.ariaPressed = IF isMatch(d.cards[j], id) THEN T("true")
                                               ELSE T("false")]]]

\* setVideo, lines 249-277: the open-demo link for the card selected
showSelectedLink(d, selected, strs) ==
    IF showDemoFor(selected)
    THEN [d EXCEPT !.demoHref = AttrOrEmpty(selected.demoLink),
                   !.demoCta = TRUE,
                   !.demoHidden = FALSE,
                   !.demoText = OpenDemoLabel(strs)]
    ELSE [d EXCEPT !.demoHref = << >>,
                   !.demoCta = FALSE,
                   !.demoHidden = TRUE,
                   !.demoText = << >>]

\* setVideo, lines 241-278, for the first active card k (0: there is none)
showSelectedAt(d, k, strs) ==
    IF k = 0 THEN d
    ELSE showSelectedLink([d EXCEPT !.selTitle = AttrOrEmpty(d.cards[k].title),
                                    !.selDesc = AttrOrEmpty(d.cards[k].long)],
                          d.cards[k], strs)

showSelected(d, strs) == showSelectedAt(d, FirstActive(d), strs)

\* setVideo(id, autoplay).  Everything from line 180 on lies inside the
\* else branch of `if (!id.startsWith('http'))`, which ends at line 279:
\* for an id that does not start with 'http' the function computes url
\* and useIframe and returns.
setVideo(d, id, autoplay, strs) ==
    IF id = << >> THEN [d EXCEPT !.iframeSrc = << >>, !.plan = NoPlan]
    ELSE IF ~StartsWith(id, <<"http">>)
    THEN [d EXCEPT !.plan = planOf(id, classify(id, autoplay))]
    ELSE showSelected(markMatching(showMedia(d, planOf(id, classify(id, autoplay))), id),
                      strs)

\* no timeout
NoTimer == [id |-> << >>, status |-> "none"]

\* a load or an error event of the iframe: onLoad (onError) of every call
\* still listening sets its iframeLoaded and removes both listeners
heard(d, what) ==
    [d EXCEPT !.timers = [j \in DOMAIN d.timers |->
                            IF d.timers[j].status = "waiting"
                            THEN [d.timers[j] EXCEPT !.status = what]
                            ELSE d.timers[j]]]

\* as if the function were declared: whether the URL's host is YouTube's
hostIncludesYouTubeDeclared(id) ==
    IF Includes(ParseURL(id).hostname, <<"youtube">>) THEN "true" ELSE "false"

\* line 207: hostIncludesYouTube(id).  No function of that name is
\* declared: evaluating the call throws a ReferenceError
hostIncludesYouTube(id) == "ReferenceError"

\* document.querySelector(`.project-card[data-demo-link="${id}"]`)
MatchingDemoCard(d, id) ==
    MinOrZero({ j \in DOMAIN d.cards : d.cards[j].demoLink = Str(id) })

\* the timeout callback, lines 208-226, with the matching card k
fallbackAt(d, id, k) ==
    [d EXCEPT !.iframeSrc = << >>,
              !.imgHidden = IF d.imgSrc # << >> THEN FALSE ELSE @,
              !.demoHidden = IF k # 0 /\ IsPartnerDemo(AttrOrEmpty(d.cards[k].projectId),
                                                       ParseURL(id))
                             THEN FALSE ELSE @]

timeoutFallback(d, id) == fallbackAt(d, id, MatchingDemoCard(d, id))

\* the timeout callback of the call t, lines 206-227: the condition is
\* evaluated left to right, and a throw ends the callback
onTimeout(d, t) ==
    IF t.status = "loaded" \/ ~StartsWith(t.id, <<"http">>) THEN d
    ELSE IF hostIncludesYouTube(t.id) = "false" THEN timeoutFallback(d, t.id)
    ELSE d

\* line 224: the element the timeout callback of the call t focuses, when
\* it runs to its body and shows the link
timeoutFocus(d, t) ==
    IF t.status = "loaded" \/ ~StartsWith(t.id, <<"http">>) THEN "none"
    ELSE IF hostIncludesYouTube(t.id) = "false"
            /\ ~timeoutFallback(d, t.id).demoHidden /\ d.demoHidden
    THEN "projectDemoLink"
    ELSE "none"

\* every timeout set fires, oldest first
RECURSIVE fireAll(_)
fireAll(d) ==
    IF d.timers = << >> THEN d
    ELSE fireAll([onTimeout(d, Head(d.timers)) EXCEPT !.timers = Tail(d.timers)])

\* what the iframe can have let the listeners of d hear by the time their
\* timeouts fire, when the user waits for that
Heard(d, patient) ==
    IF patient /\ d.timers # << >> THEN {"waiting", "loaded", "errored"} ELSE {"waiting"}

\* the document a handler leaves: when the user is patient, 1.6 s pass
\* before the next handler, the iframe has fired load, error or nothing and
\* the timeouts the handler set have fired
afterTimeouts(d, patient, st) ==
    IF patient THEN fireAll(heard(d, st)) ELSE d

\* activateCard, lines 296-303: data-video-id, else data-youtube, else
\* data-demo-link, else ''
cardVid(card) ==
    IF Truthy(card.videoId) THEN card.videoId.v
    ELSE IF Truthy(card.youtube) THEN card.youtube.v
    ELSE AttrOrEmpty(card.demoLink)

\* activateCard(card) for the card at index i
activateCard(d, i, strs, sett) ==
    setVideo(selectProject(d, i, strs),
             cardVid(d.cards[i]),
             IF cardVid(d.cards[i]) = << >> THEN Bool(FALSE)
             ELSE Or(Prop(sett, N("defaultAutoplay")), Bool(FALSE)),
             strs)

\* lines 146-148 and 742-744: the first card is selected, with its video
\* when it has a media identity
selectFirst(d, strs, sett) ==
    IF Truthy(firstVid(d.cards[1]))
    THEN setVideo(selectProject(d, 1, strs), firstVid(d.cards[1]).v,
                  Prop(sett, N("defaultAutoplay")), strs)
    ELSE selectProject(d, 1, strs)

\* lines 119-121: the grid is emptied and a card built for every project
buildCards(d, projs, strs) ==
    [d EXCEPT !.cards = [j \in DOMAIN projs.v |->
                           buildProjectCard(projs.v[j], j - 1, strs)]]

\* the cards are built and none is selected
leaveUnselected(d, strs, sett) == d

\* lines 144-149
selectFirstIfAny(d, strs, sett) ==
    IF d.cards = << >> THEN d ELSE selectFirst(d, strs, sett)

\* renderProjects()
renderProjects(d, projs, strs, sett) ==
    selectFirstIfAny(buildCards(d, projs, strs), strs, sett)

\* updateProjectLabels(), lines 641-667: the open-demo link follows the
\* active card (the cards' own labels are rebuilt by renderProjects)
updateDemoLabel(d, k, strs) ==
    IF k # 0 /\ showDemoFor(d.cards[k])
    THEN [d EXCEPT !.demoText = LabelOr(friendlyLabelForUrl(AttrOrEmpty(d.cards[k].demoLink)),
                                        strs),
                   !.demoHidden = FALSE,
                   !.demoCta = TRUE]
    ELSE [d EXCEPT !.demoText = << >>,
                   !.demoCta = FALSE,
                   !.demoHidden = TRUE]

updateProjectLabels(d, strs) == updateDemoLabel(d, FirstActive(d), strs)

(***************************************************************************)
(* The documents the page can be served                                    *)
(***************************************************************************)
\* an object written as a record
Rec(r) == Obj([k \in {N(f) : f \in DOMAIN r} |-> r[k[1]]])

DEFAULT_SETTINGS ==
    Rec([defaultLanguage |-> T("en"), defaultTheme |-> T("dark"), defaultAutoplay |-> Bool(FALSE)])

ExampleUrl == <<"http", "s", "://", "example", ".", "com", "/", "x">>
KronosUrl == <<"http", "s", "://", "kronos-live", ".", "pages", ".", "dev">>
KronosUpperUrl == <<"http", "s", "://", "KRONOS-LIVE", ".", "pages", ".", "dev", "/", "x">>
YouTubeUrl == <<"http", "s", "://", "www", ".", "youtube", ".", "com", "/", "embed", "/", "xyz">>
YoutuBeUrl == <<"http", "s", "://", "youtu", ".", "be", "/", "xyz">>
VimeoUrl == <<"http", "s", "://", "player", ".", "vimeo", ".", "com", "/", "video", "/", "xyz">>
LookalikeUrl == <<"http", "s", "://", "youtube", ".", "com", ".", "evil", ".", "org", "/", "x">>
NoHostUrl == <<"http", "s", "://">>
NoSchemeId == <<"http", "abc">>

\* projects.json of the end-to-end scenarios: a video id, then an image
ProjA == Rec([id |-> T("a"), videoId |-> T("abc123"), title |-> T("Alpha"),
              long_description |-> T("AlphaLong")])
ProjB == Rec([id |-> T("b"), image |-> T("b.png"), title |-> T("Beta")])
\* the partner project, a project without media, and projects by URL
ProjKronos == Rec([id |-> T("kronos_live"), demo_link |-> Str(KronosUrl),
                   image |-> T("k.png"), titleKey |-> T("proj1_title")])
ProjNone == Rec([id |-> T("n"), title |-> T("Nu")])
ProjExample == Rec([id |-> T("e"), video_url |-> Str(ExampleUrl), title |-> T("Epsilon")])
ProjExampleImg == Rec([id |-> T("ei"), link |-> Str(ExampleUrl), image |-> T("e.png"),
                       title |-> T("Eta")])
ProjKronosExample == Rec([id |-> T("kronos_live"), demo_link |-> Str(ExampleUrl),
                          title |-> T("Kappa")])
ProjYouTube == Rec([youtube_embed |-> Str(YouTubeUrl), title |-> T("Ypsilon")])
ProjYoutuBe == Rec([id |-> T("yb"), embed |-> Str(YoutuBeUrl), image |-> T("y.png")])
ProjVimeo == Rec([id |-> T("v"), embed_url |-> Str(VimeoUrl)])
ProjLookalike == Rec([id |-> T("l"), video_url |-> Str(LookalikeUrl)])
ProjNoHost == Rec([id |-> T("x"), repo_link |-> Str(NoHostUrl), image |-> T("x.png")])
ProjNoScheme == Rec([id |-> T("h"), videoId |-> Str(NoSchemeId)])
ProjKronosUpper == Rec([id |-> T("u"), demoLink |-> Str(KronosUpperUrl)])

ProjectsFiles ==
    { Null,
      Rec([error |-> T("oops")]),
      Arr(<< >>),
      Arr(<<ProjA, ProjB>>),
      Arr(<<ProjKronos, ProjA, ProjNone, ProjB, ProjExample>>),
      Arr(<<ProjKronosExample, ProjExample, ProjExampleImg, ProjYouTube>>),
      Arr(<<ProjYouTube, ProjYoutuBe, ProjVimeo, ProjLookalike, ProjNoHost,
            ProjNoScheme, ProjKronosUpper>>) }

SettingsFiles ==
    { Null,
      Rec([defaultAutoplay |-> Bool(TRUE)]) }

ProfileFiles ==
    { Null,
      Rec([fullName |-> T("Adam"),
           tagline |-> Str(<<"{", "{", "fullName", "}", "}", " ", "dev">>)]) }

EnDoc ==
    Rec([hero_title |-> Str(<<"Hi", " ", "{", "{", "fullName", "}", "}">>),
         proj1_title |-> T("One"),
         open_demo |-> T("Open")])

\* the Polish document brings its own project list
PlDoc ==
    Rec([hero_title |-> Str(<<"Czesc", " ", "{", "{", " ", "fullName", " ", "}", "}">>),
         projects |-> Arr(<<
             Rec([id |-> T("s1"), videoId |-> T("abc123"),
                  title |-> Str(<<"{", "{", "tagline", "}", "}">>)]),
             Rec([id |-> T("s2"), image |-> T("s.png"),
                  title |-> Str(<<"{", "{", "fullName", "}", "}">>)]) >>)])

TemplateDoc ==
    Rec([hero_title |-> Str(<<"{", "{", "full_name_from_external_file", "}", "}">>),
         proj1_title |-> T("Uno"),
         proj2_title |-> T("Due"),
         projects |-> Arr(<< >>)])

Langs == { <<"en">>, <<"pl">> }

\* what loadJson('content/<locale>.json') can return: null, or the file
ContentFiles(locale) ==
    IF locale = <<"en">> THEN { Null, EnDoc }
    ELSE IF locale = <<"pl">> THEN { Null, PlDoc }
    ELSE { Null }

TemplateFiles == { Null, TemplateDoc }

SampleProjects ==
    Arr(<< Rec([id |-> T("sample1"), videoId |-> EmptyStr,
                titleKey |-> T("proj1_title"), descKey |-> T("proj1_desc")]),
           Rec([id |-> T("sample2"), videoId |-> EmptyStr,
                titleKey |-> T("proj2_title"), descKey |-> T("proj2_desc")]) >>)

(***************************************************************************)
(* Content assembly                                                        *)
(***************************************************************************)
\* { ...a, ...b }
Spread(a, b) == Obj(b.v @@ a.v)

\* obj[k] = x
SetProp(o, k, x) == Obj((k :> x) @@ o.v)

\* Array.isArray(strings.projects) && strings.projects.length
HasProjects(strs) ==
    /\ strs.t = "object"
    /\ Prop(strs, N("projects")).t = "array"
    /\ Prop(strs, N("projects")).v # << >>

\* the alias back-fill of download_cv and name
withAliases(strs, profl) ==
    LET s1 == IF ~Truthy(Prop(strs, N("download_cv"))) /\ Truthy(Prop(strs, N("download_cv_text")))
              THEN SetProp(strs, N("download_cv"), Prop(strs, N("download_cv_text")))
              ELSE strs
    IN IF ~Truthy(Prop(s1, N("name"))) /\ Truthy(Prop(profl, N("fullName")))
       THEN SetProp(s1, N("name"), Prop(profl, N("fullName")))
       ELSE s1

\* the markup before the script has run
InitialDom ==
    [ cards |-> << >>, iframeSrc |-> << >>, imgSrc |-> << >>, imgHidden |-> TRUE,
      demoHref |-> << >>, demoHidden |-> TRUE, demoText |-> << >>, demoCta |-> FALSE,
      selTitle |-> << >>, selDesc |-> << >>, plan |-> NoPlan, timers |-> << >>,
      busy |-> TRUE, pressed |-> {}, hero |-> << >>, texts |-> << >> ]

\* k.split('.')
RECURSIVE splitDots(_)
splitDots(k) ==
    IF IndexFrom(k, ".", 1) = 0 THEN <<k>>
    ELSE <<SubSeq(k, 1, IndexFrom(k, ".", 1) - 1)>>
         \o splitDots(SubSeq(k, IndexFrom(k, ".", 1) + 1, Len(k)))

\* the loop of resolveKey and its last line
RECURSIVE walkKey(_, _)
walkKey(cur, parts) ==
    IF parts = << >> THEN (IF cur.t = "string" THEN cur ELSE EmptyStr)
    ELSE IF Truthy(cur) /\ Prop(cur, Head(parts)) # Undef
    THEN walkKey(Prop(cur, Head(parts)), Tail(parts))
    ELSE EmptyStr

\* updateTextNodes: resolveKey(k), over strings
resolveKey(strs, k) == IF k = << >> THEN EmptyStr ELSE walkKey(strs, splitDots(k))

\* updateTextNodes: resolveKey(key) || (strings && strings[key]) || ''
textValue(strs, k) == FirstTruthy(<<resolveKey(strs, k), Prop(strs, k)>>)

\* updateTextNodes, lines 49-53: the text of every element with a data-i18n
\* key among keys; an element whose value is falsy keeps its text
updateTextNodes(d, strs, keys) ==
    [d EXCEPT !.texts = [k \in keys |->
                           IF Truthy(textValue(strs, k)) THEN ToStr(textValue(strs, k))
                           ELSE IF k \in DOMAIN d.texts THEN d.texts[k]
                           ELSE << >>]]

\* renderHero, line 676: if (strings.hero_title) heroTitle.textContent = ...
renderHero(d, strs, follow) ==
    IF "hero" \in follow /\ Truthy(Prop(strs, N("hero_title")))
    THEN [d EXCEPT !.hero = ToStr(Prop(strs, N("hero_title")))]
    ELSE d

\* lines 569-572 and 557-558: the language buttons whose data-lang is v
\* are pressed, the others are not
pressButtons(d, v, follow) ==
    IF "pressed" \in follow THEN [d EXCEPT !.pressed = { b \in Langs : b = v }] ELSE d

\* the text nodes, the hero and the project cards, as init (lines 603-610)
\* and applyLanguageChange (541-550) render them
renderSections(d, projs, strs, sett, w) ==
    renderProjects(renderHero(updateTextNodes(d, strs, w.i18n), strs, w.follow),
                   projs, strs, sett)

\* an answer that is no array leaves the list empty
projectsOrEmpty(p) == IF p.t = "array" THEN p ELSE Arr(<< >>)

\* lines 497-505: projects = Array.isArray(p) ? p : [], and the two sample
\* items when that is empty
projectsOrSamples(p) == IF p.t = "array" /\ p.v # << >> THEN p ELSE SampleProjects

\* the loading state is left set
leaveLoading(d) == d

\* the finally block of the DOMContentLoaded handler, lines 792-798
finallyBlock(d) == [d EXCEPT !.busy = FALSE]

\* settings = { ...DEFAULT_SETTINGS, ...(s || {}) }
mergeSettings(s) == Spread(DEFAULT_SETTINGS, Or(s, EmptyObj))

\* the document of the first load only: the template is never asked for
contentOnly(c0, tpl) == c0

\* let c = await loadJson(contentPath); if (!c) c = await loadJson(TEMPLATE_PATH)
contentOrTemplate(c0, tpl) == IF Truthy(c0) THEN c0 ELSE tpl

\* loadJson(TEMPLATE_PATH) was not called
NotAsked == Undef

\* the elements the script looks up in the page shell
ShellElements == {"themeToggle", "projectDemoLink", "ytFrame", "projectImg", "showcase"}

\* selectProject, lines 367-376: with scroll requested the showcase is
\* scrolled into view
scrolls(shell, scroll) == scroll /\ "showcase" \in shell

\* the open-demo link is focused whether or not scroll is requested
focusedAlways(shell, scroll) == "projectDemoLink"

\* document.getElementById('projectDemoLink') || document.getElementById('ytFrame'),
\* focused when scroll is requested and the showcase is there
focused(shell, scroll) ==
    IF ~scrolls(shell, scroll) THEN "none"
    ELSE IF "projectDemoLink" \in shell THEN "projectDemoLink"
    ELSE IF "ytFrame" \in shell THEN "ytFrame"
    ELSE "none"

\* no handler has run
NothingDone ==
    [op |-> "none", card |-> 0, embedBefore |-> FALSE, fired |-> NoTimer,
     scrolled |-> FALSE, focus |-> "none"]

\* the theme is not followed
NoTheme == [step |-> "none"]

\* no call of loadJson is modelled
NoCall == [step |-> "none"]

NothingFetched == [content |-> NotAsked, template |-> NotAsked]

TaskKinds == Langs \X {"content", "template"}
MaxPending == 2
MaxTimers == 1
PendingCount == LET RECURSIVE Sum(_)
                    Sum(S) == IF S = {} THEN 0
                              ELSE LET k == CHOOSE x \in S : TRUE
                                   IN pending[k] + Sum(S \ {k})
                IN Sum(TaskKinds)

\* the page as the script finds it, whatever the surroundings
PageStart ==
    /\ settings = DEFAULT_SETTINGS
    /\ strings = EmptyObj
    /\ profile = EmptyObj
    /\ projects = Arr(<< >>)
    /\ lang \in { Null, T("pl") }
    /\ dom = InitialDom
    /\ pc = "loading"
    /\ pending = [k \in TaskKinds |-> 0]
    /\ fileProjects = Arr(<< >>)
    /\ rawStrings = EmptyObj
    /\ last = NothingDone
    /\ fetched = NothingFetched
    /\ doc = Null /\ prof = EmptyObj /\ out = << >>
    /\ call = NoCall
    /\ theme = NoTheme

\* any of the files, and a user who lets the timeout of an embed pass
\* (1.6 s) before acting again
PatientWorld ==
    [ patient |-> TRUE, settings |-> SettingsFiles, profile |-> ProfileFiles,
      projects |-> ProjectsFiles, shell |-> ShellElements, i18n |-> {}, follow |-> {} ]

Init == PageStart /\ world = PatientWorld

\* loadSettingsAndContent(): settings, the locale's content or the
\* template, the profile, the project list and its override
LoadSettingsAndContent ==
    /\ pc = "loading"
    /\ \E s \in world.settings, prf \in world.profile, p \in world.projects,
          tpl \in TemplateFiles :
         LET sett == mergeSettings(s)
             savedLang == Or(lang, Prop(sett, N("defaultLanguage")))
         IN \E c0 \in ContentFiles(ToStr(savedLang)) :
              LET c == contentOrTemplate(c0, tpl)
                  strs0 == Or(c, EmptyObj)
                  profl == Or(prf, EmptyObj)
                  fromFile == projectsOrSamples(p)
                  projs == IF HasProjects(strs0)
                           THEN replacePlaceholders(Prop(strs0, N("projects")), profl)
                           ELSE fromFile
              IN /\ settings' = sett
                 /\ profile' = profl
                 /\ fileProjects' = fromFile
                 /\ projects' = projs
                 /\ rawStrings' = strs0
                 /\ strings' = withAliases(replacePlaceholders(strs0, profl), profl)
                 /\ fetched' = [content |-> c0,
                                template |-> IF Truthy(c0) THEN NotAsked ELSE tpl]
    /\ pc' = "loaded"
    /\ UNCHANGED <<lang, dom, pending, last, doc, prof, out, call, world, theme>>

\* init() after loadSettingsAndContent: the handlers are attached and the
\* sections rendered; the first card is selected once more if none is active
InitRender ==
    /\ pc = "loaded"
    /\ "themeToggle" \in world.shell
    /\ \E d1 \in { renderSections(pressButtons(dom, ToStr(Or(lang, Prop(settings, N("defaultLanguage")))),
                                                 world.follow),
                                    projects, strings, settings, world) } :
         \E d2 \in { IF d1.cards # << >> /\ ActiveCards(d1) = {}
                      THEN selectFirst(d1, strings, settings)
                      ELSE d1 } :
           /\ Len(d2.timers) <= MaxTimers
           /\ dom' \in { finallyBlock(afterTimeouts(d2, world.patient, st)) :
                           st \in Heard(d2, world.patient) }
           /\ last' = [op |-> "render", card |-> IF d2.cards = << >> THEN 0 ELSE 1,
                       embedBefore |-> dom.iframeSrc # << >>,
                       fired |-> NoTimer, scrolled |-> scrolls(world.shell, FALSE),
                       focus |-> focused(world.shell, FALSE)]
    /\ pc' = "ready"
    /\ UNCHANGED <<settings, strings, profile, projects, lang, pending,
                   fileProjects, rawStrings, fetched, doc, prof, out, call, world, theme>>

\* a click on card i: the card's own listener and the grid's delegated
\* listener both call activateCard
CardClick(i) ==
    /\ pc = "ready"
    /\ i \in DOMAIN dom.cards
    /\ \E d1 \in { activateCard(dom, i, strings, settings) } :
         \E d2 \in { activateCard(d1, i, strings, settings) } :
           /\ Len(d2.timers) <= MaxTimers
           /\ dom' \in { afterTimeouts(d2, world.patient, st) : st \in Heard(d2, world.patient) }
    /\ last' = [op |-> "select", card |-> i, embedBefore |-> dom.iframeSrc # << >>,
                fired |-> NoTimer, scrolled |-> scrolls(world.shell, TRUE),
                focus |-> focused(world.shell, TRUE)]
    /\ UNCHANGED <<settings, strings, profile, projects, lang, pc, pending,
                   fileProjects, rawStrings, fetched, doc, prof, out, call, world, theme>>

\* Enter or Space on card i: activateCard once
CardKey(i) ==
    /\ pc = "ready"
    /\ i \in DOMAIN dom.cards
    /\ \E d1 \in { activateCard(dom, i, strings, settings) } :
         /\ Len(d1.timers) <= MaxTimers
         /\ dom' \in { afterTimeouts(d1, world.patient, st) : st \in Heard(d1, world.patient) }
    /\ last' = [op |-> "select", card |-> i, embedBefore |-> dom.iframeSrc # << >>,
                fired |-> NoTimer, scrolled |-> scrolls(world.shell, TRUE),
                focus |-> focused(world.shell, TRUE)]
    /\ UNCHANGED <<settings, strings, profile, projects, lang, pc, pending,
                   fileProjects, rawStrings, fetched, doc, prof, out, call, world, theme>>

\* a click on the language button v: applyLanguageChange(v) up to its
\* first await
LangClick(v) ==
    /\ pc = "ready"
    /\ PendingCount < MaxPending
    /\ lang' = Str(v)
    /\ dom' = pressButtons(dom, v, world.follow)
    /\ pending' = [pending EXCEPT ![<<v, "content">>] = @ + 1]
    /\ UNCHANGED <<settings, strings, profile, projects, pc,
                   fileProjects, rawStrings, last, fetched, doc, prof, out, call, world, theme>>

\* the new strings and projects are assigned and the page is left as it was
finishWithoutRender(v, c) ==
    \E strs \in { withAliases(replacePlaceholders(Or(c, EmptyObj), profile), profile) } :
      /\ rawStrings' = Or(c, EmptyObj)
      /\ strings' = strs
      /\ projects' = IF HasProjects(strs)
                     THEN replacePlaceholders(Prop(strs, N("projects")), profile)
                     ELSE projects
      /\ dom' = dom
      /\ last' = [op |-> "render", card |-> IF dom.cards = << >> THEN 0 ELSE 1,
                  embedBefore |-> dom.iframeSrc # << >>,
                  fired |-> NoTimer, scrolled |-> scrolls(world.shell, FALSE),
                  focus |-> focused(world.shell, FALSE)]

\* applyLanguageChange(v) from `strings = c || {}` to its end
finishLanguageChange(v, c) ==
    \E strs \in { withAliases(replacePlaceholders(Or(c, EmptyObj), profile), profile) } :
      \E projs \in { IF HasProjects(strs)
                     THEN replacePlaceholders(Prop(strs, N("projects")), profile)
                     ELSE projects } :
        \E d1 \in { pressButtons(renderSections(updateProjectLabels(dom, strs), projs, strs,
                                                settings, world), v, world.follow) } :
          /\ Len(d1.timers) <= MaxTimers
          /\ rawStrings' = Or(c, EmptyObj)
          /\ strings' = strs
          /\ projects' = projs
          /\ dom' \in { afterTimeouts(d1, world.patient, st) : st \in Heard(d1, world.patient) }
          /\ last' = [op |-> "render", card |-> IF d1.cards = << >> THEN 0 ELSE 1,
                      embedBefore |-> dom.iframeSrc # << >>,
                      fired |-> NoTimer, scrolled |-> scrolls(world.shell, FALSE),
                      focus |-> focused(world.shell, FALSE)]

\* content/<v>.json has been answered: with a document the change is
\* finished, with null the template is asked for
ContentLoaded(v) ==
    /\ pending[<<v, "content">>] > 0
    /\ \E c \in ContentFiles(v) :
         IF Truthy(c)
         THEN /\ finishLanguageChange(v, c)
              /\ fetched' = [content |-> c, template |-> NotAsked]
              /\ pending' = [pending EXCEPT ![<<v, "content">>] = @ - 1]
         ELSE /\ pending' = [pending EXCEPT ![<<v, "content">>] = @ - 1,
                                            ![<<v, "template">>] = @ + 1]
              /\ UNCHANGED <<strings, projects, dom, rawStrings, last, fetched>>
    /\ UNCHANGED <<settings, profile, lang, pc, fileProjects, doc, prof, out, call, world, theme>>

\* the template has been answered
TemplateLoaded(v) ==
    /\ pending[<<v, "template">>] > 0
    /\ \E c \in TemplateFiles :
         /\ finishLanguageChange(v, c)
         /\ fetched' = [content |-> Null, template |-> c]
    /\ pending' = [pending EXCEPT ![<<v, "template">>] = @ - 1]
    /\ UNCHANGED <<settings, profile, lang, pc, fileProjects, doc, prof, out, call, world, theme>>

\* the iframe fires load: every call still listening hears it
IframeLoad ==
    /\ \E j \in DOMAIN dom.timers : dom.timers[j].status = "waiting"
    /\ dom' = heard(dom, "loaded")
    /\ UNCHANGED <<settings, strings, profile, projects, lang, pc, pending,
                   fileProjects, rawStrings, last, fetched, doc, prof, out, call, world, theme>>

\* the iframe fires error
IframeError ==
    /\ \E j \in DOMAIN dom.timers : dom.timers[j].status = "waiting"
    /\ dom' = heard(dom, "errored")
    /\ UNCHANGED <<settings, strings, profile, projects, lang, pc, pending,
                   fileProjects, rawStrings, last, fetched, doc, prof, out, call, world, theme>>

\* 1.6 s after its setVideo call the oldest timeout fires
TimerFire ==
    /\ dom.timers # << >>
    /\ dom' = [onTimeout(dom, Head(dom.timers)) EXCEPT !.timers = Tail(dom.timers)]
    /\ last' = [last EXCEPT !.fired = Head(dom.timers),
                             !.scrolled = FALSE,
                             !.focus = timeoutFocus(dom, Head(dom.timers))]
    /\ UNCHANGED <<settings, strings, profile, projects, lang, pc, pending,
                   fileProjects, rawStrings, fetched, doc, prof, out, call, world, theme>>

Next ==
    \/ LoadSettingsAndContent
    \/ InitRender
    \/ \E i \in 1..7 : CardClick(i)
    \/ \E i \in 1..7 : CardKey(i)
    \/ \E v \in Langs : LangClick(v)
    \/ \E v \in Langs : ContentLoaded(v)
    \/ \E v \in Langs : TemplateLoaded(v)

Spec == Init /\ [][Next]_vars

\* init() throws: applyTheme (line 524) reads a property of
\* document.getElementById('themeToggle'), which is null in a shell without
\* the toggle; the handler's finally block runs
InitThrows ==
    /\ pc = "loaded"
    /\ "themeToggle" \notin world.shell
    /\ pc' = "failed"
    /\ dom' = finallyBlock(dom)
    /\ UNCHANGED <<settings, strings, profile, projects, lang, pending,
                   fileProjects, rawStrings, last, fetched, doc, prof, out, call, world, theme>>

\* what projects.json can be answered with on a small page
ShellProjects ==
    { Null, Rec([error |-> T("oops")]), Arr(<< >>), Arr(<<ProjA, ProjB>>) }

\* the data-i18n keys of the shell that are followed
ShellKeys == { N("proj1_title") }

\* a page whose texts are followed: one answer for projects.json, a shell
\* with or without the theme toggle
ShellWorld(p, sh) ==
    [ patient |-> TRUE, settings |-> {Null},
      profile |-> { Rec([fullName |-> T("Adam")]) },
      projects |-> {p}, shell |-> sh,
      i18n |-> ShellKeys, follow |-> {"hero", "pressed"} ]

ShellWorlds ==
    { ShellWorld(p, sh) : p \in ShellProjects,
                          sh \in { ShellElements, ShellElements \ {"themeToggle"} } }

InitShell == PageStart /\ world \in ShellWorlds

NextShell ==
    \/ Next
    \/ InitThrows

SpecShell == InitShell /\ [][NextShell]_vars

\* every load is answered in the end and init() runs on
SpecBoot ==
    /\ SpecShell
    /\ WF_vars(LoadSettingsAndContent)
    /\ WF_vars(InitRender)
    /\ WF_vars(InitThrows)

\* a user who acts again while timeouts are pending, on a page with the
\* partner demo (embedded from a whitelisted host), a project with a still
\* image only and a project without media, which comes first
HastyWorld ==
    [ patient |-> FALSE, settings |-> {Null},
      profile |-> { Rec([fullName |-> T("Adam")]) },
      projects |-> { Arr(<<ProjNone, ProjKronos, ProjB>>) },
      shell |-> ShellElements, i18n |-> {}, follow |-> {} ]

InitEmbed == PageStart /\ world = HastyWorld

NextEmbed ==
    \/ Next
    \/ IframeLoad
    \/ IframeError
    \/ TimerFire

SpecEmbed == InitEmbed /\ [][NextEmbed]_vars

(***************************************************************************)
(* Claims about the showcase.  They speak of the state a handler leaves:   *)
(* last names the handler that ran last (a render, which selects the       *)
(* first card, or a user selection) and the card it made the active        *)
(* project.                                                                *)
(***************************************************************************)
Settled == pc = "ready" /\ last.card # 0
LastCard == dom.cards[last.card]

\* the media identity of the project made active last
Identity == cardVid(LastCard)

AutoplayDigit == IF Prop(settings, N("defaultAutoplay")) = Bool(TRUE) THEN "1" ELSE "0"

\* https://www.youtube.com/embed/<id>?rel=0&autoplay=<0|1>
ExpectedEmbedUrl(id) ==
    <<"http", "s", "://", "www", ".", "youtube", ".", "com", "/", "embed", "/">>
        \o id \o <<"?", "rel=0", "&", "autoplay=", AutoplayDigit>>

\* C1: whenever a project whose media identity is a bare video id (one
\* that does not start with 'http') becomes the active project, by a
\* render or by a user selection, its card is active and the iframe src
\* is the YouTube embed URL of the id, with the autoplay digit of
\* settings.defaultAutoplay.
C1_BareIdShownInFrame ==
    (Settled /\ Identity # << >> /\ ~StartsWith(Identity, <<"http">>))
    => /\ LastCard.active
       /\ dom.iframeSrc = ExpectedEmbedUrl(Identity)

\* an identity that starts with a URI scheme
StartsWithScheme(id) ==
    StartsWith(id, <<"http", "://">>) \/ StartsWith(id, <<"http", "s", "://">>)

VideoProviders ==
    { <<"youtube", ".", "com">>, <<"youtu", ".", "be">>, <<"vimeo", ".", "com">> }
PartnerWhitelist == { <<"kronos-live", ".", "pages", ".", "dev">> }

\* a host matches a provider when it holds the provider's domain, and
\* the whitelist when it is one of its entries
HostMatches(host) ==
    \/ \E p \in VideoProviders : Includes(host, p)
    \/ host \in PartnerWhitelist

SoleIdentityAtExample(card) ==
    /\ Cardinality({ a \in {"videoId", "youtube", "demoLink"} : Truthy(card[a]) }) = 1
    /\ ParseURL(cardVid(card)).ok
    /\ ParseURL(cardVid(card)).hostname = <<"example", ".", "com">>

FirstCarrying(id) ==
    MinOrZero({ j \in DOMAIN dom.cards :
                  Str(id) \in {dom.cards[j].videoId, dom.cards[j].youtube,
                               dom.cards[j].demoLink} })

\* the card is one of the designated external-demo project: it has a demo
\* link, and its project id is kronos_live or its demo host holds
\* kronos-live.pages.dev
Designated(card) ==
    /\ Truthy(card.demoLink)
    /\ \/ card.projectId = T("kronos_live")
       \/ /\ ParseURL(card.demoLink.v).ok
          /\ Includes(ParseURL(card.demoLink.v).hostname,
                      <<"kronos-live", ".", "pages", ".", "dev">>)

C5_ImageOnlyProjectShowsImage ==
    (/\ Settled /\ last.op = "select"
     /\ Identity = << >> /\ Truthy(LastCard.image)
     /\ LastCard.projectId # T("kronos_live"))
    => /\ dom.iframeSrc = << >>
       /\ dom.imgSrc = LastCard.image.v
       /\ ~dom.imgHidden
       /\ dom.demoHidden

\* the image-only project was selected while an embed was showing
C5_Witness ==
    /\ Settled /\ last.op = "select"
    /\ Identity = << >> /\ LastCard.image = T("b.png")
    /\ last.embedBefore
    /\ dom.iframeSrc = << >> /\ dom.imgSrc = <<"b.png">>

\* C6: in every state after the initial render, for every non-empty
\* project list, exactly one card is active, and it alone has
\* aria-pressed 'true'.
C6_ExactlyOneActive ==
    (pc = "ready" /\ dom.cards # << >>)
    => /\ Cardinality({ i \in DOMAIN dom.cards : dom.cards[i].active }) = 1
       /\ \A i \in DOMAIN dom.cards :
              dom.cards[i].active <=> dom.cards[i].ariaPressed = T("true")

\* the strings document has a non-empty projects array
DocHasProjects(d) ==
    /\ d.t = "object"
    /\ N("projects") \in DOMAIN d.v
    /\ d.v[N("projects")].t = "array"
    /\ d.v[N("projects")].v # << >>

\* C7: after initial assembly and after a locale change, if the strings
\* document has a non-empty projects array, the project list is that
\* array after one placeholder resolution against the profile.
C7_OverrideIsResolvedArray ==
    (pc \in {"loaded", "ready"} /\ DocHasProjects(rawStrings))
    => projects = replacePlaceholders(rawStrings.v[N("projects")], profile)

\* C8: after initial assembly and after every completed locale change, if
\* the strings document of the locale has no non-empty projects array, the
\* project list is the file-based list (or the sample list).
C8_NoOverrideIsFileList ==
    (pc \in {"loaded", "ready"} /\ ~DocHasProjects(rawStrings))
    => projects = fileProjects

(***************************************************************************)
(* The resolver on its own: a document and a profile are drawn, and        *)
(* replacePlaceholders is applied to the document and then to its result.  *)
(***************************************************************************)
MaxSegs == 3
MaxPasses == 2

\* the pieces the input strings are made of
Segments ==
    { <<"{", "{", "fullName", "}", "}">>,
      <<"{", "{", " ", "tagline", " ", "}", "}">>,
      <<"{", "{", "nokey", "}", "}">>,
      <<"{", "{", " ", "nokey", "}", "}">>,
      <<"{", "{", "full_name_from_external_file", "}", "}">>,
      <<"{", "{", "constructor", "}", "}">>,
      <<"{", "{", "nokey", "}">>,
      <<"{">>, <<"}">>, <<"text">>, <<"constructor">> }

RECURSIVE SegStrings(_)
SegStrings(n) ==
    IF n = 0 THEN { << >> }
    ELSE LET shorter == SegStrings(n - 1)
         IN shorter \cup { s \o g : s \in shorter, g \in Segments }

\* the documents: every string of up to MaxSegs pieces, and containers
InputDocs ==
    { Str(s) : s \in SegStrings(MaxSegs) }
    \cup { Arr(<<Str(s), Str(<<"text">>)>>) : s \in SegStrings(1) }
    \cup { Obj(N("title") :> Str(s) @@ N("tags") :> Arr(<<Str(s)>>)) : s \in SegStrings(1) }
    \cup { Null, Undef, Bool(TRUE) }

ResolverProfiles ==
    { EmptyObj,
      Obj(N("fullName") :> T("Adam")),
      Obj(N("fullName") :> T("Adam")
          @@ N("tagline") :> Str(<<"{", "{", "fullName", "}", "}", " ", "dev">>)) }

InitResolve ==
    /\ doc \in InputDocs
    /\ prof \in ResolverProfiles
    /\ out = << >>
    /\ settings = DEFAULT_SETTINGS /\ strings = EmptyObj /\ profile = EmptyObj
    /\ projects = Arr(<< >>) /\ lang = Null /\ dom = InitialDom /\ pc = "loading"
    /\ pending = [k \in TaskKinds |-> 0] /\ fileProjects = Arr(<< >>)
    /\ rawStrings = EmptyObj /\ last = NothingDone
    /\ fetched = NothingFetched /\ call = NoCall /\ world = PatientWorld
    /\ theme = NoTheme

\* one more application: of the document first, then of the last result
Resolve ==
    /\ Len(out) < MaxPasses
    /\ out' = Append(out, replacePlaceholders(IF out = << >> THEN doc ELSE out[Len(out)], prof))
    /\ UNCHANGED <<doc, prof>>
    /\ UNCHANGED pageVars
    /\ UNCHANGED loadVars

NextResolve == Resolve

SpecResolve == InitResolve /\ [][NextResolve]_vars

(***************************************************************************)
(* Claims about the resolver                                               *)
(***************************************************************************)
Spaces(n) == [i \in 1..n |-> " "]

\* s is the token {{key}}, with up to two spaces on either side of the key
IsToken(s, key) ==
    \E a \in 0..2, b \in 0..2 :
        s = <<"{", "{">> \o Spaces(a) \o key \o Spaces(b) \o <<"}", "}">>

\* the profile field a key is looked up in: the aliased field, or the key
LookupName(key) ==
    CASE key = N("full_name_from_external_file") -> N("fullName")
      [] key = N("email_from_external_file") -> N("email")
      [] key = N("phone_from_external_file") -> N("phone")
      [] OTHER -> key

ClaimKeys ==
    {N("nokey"), N("fullName"), N("tagline"), N("constructor"),
     N("full_name_from_external_file")}

\* C9: for every profile record that lacks a key, replacePlaceholders of
\* the string {{key}} (white space allowed inside the braces) is the empty
\* string, never the literal token.
C9_MissingKeyYieldsEmpty ==
    \A key \in ClaimKeys :
        (/\ doc.t = "string" /\ IsToken(doc.v, key)
         /\ LookupName(key) \notin DOMAIN prof.v
         /\ Len(out) >= 1)
        => out[1] = EmptyStr

\* a string that still holds a placeholder: "{{", a non-empty run without
\* "}", "}}"
HasTokenStr(s) ==
    \E i \in 1..Len(s), j \in 1..Len(s) :
        /\ j >= i + 3 /\ j + 1 <= Len(s)
        /\ s[i] = "{" /\ s[i + 1] = "{" /\ s[j] = "}" /\ s[j + 1] = "}"
        /\ \A k \in (i + 2)..(j - 1) : s[k] # "}"

RECURSIVE HasToken(_)
HasToken(d) ==
    CASE d.t = "string" -> HasTokenStr(d.v)
      [] d.t = "array" -> \E i \in DOMAIN d.v : HasToken(d.v[i])
      [] d.t = "object" -> \E k \in DOMAIN d.v : HasToken(d.v[k])
      [] OTHER -> FALSE

\* C10 as stated: placeholder resolution is idempotent for every document
\* and every profile.
C10_Idempotent ==
    Len(out) >= 2 => out[2] = out[1]

\* C10 as amended: placeholder resolution is idempotent on resolved
\* content: when the first result holds no placeholder any more, a second
\* application returns it unchanged.
C10_IdempotentOnResolved ==
    (Len(out) >= 2 /\ ~HasToken(out[1])) => out[2] = out[1]

\* a document with a placeholder was resolved to one without, twice
C10_Witness ==
    /\ Len(out) >= 2
    /\ HasToken(doc) /\ ~HasToken(out[1])
    /\ out[1] # doc /\ out[1] # EmptyStr
    /\ prof # EmptyObj

(***************************************************************************)
(* loadJson on its own: a path and the server's answer are drawn, and the  *)
(* call is taken step by step; the answer to settings.json is then merged  *)
(* into settings as loadSettingsAndContent does.  A body is a sequence of  *)
(* JSON tokens.                                                            *)
(***************************************************************************)
Punct(c) == [k |-> "punct", s |-> <<c>>]
StrTok(atoms) == [k |-> "string", s |-> atoms]
Lit(word) == [k |-> "literal", s |-> <<word>>]

\* JSON.parse of a string, true, false or null
parseScalar(tok) ==
    IF tok.k = "string" THEN [ok |-> TRUE, value |-> Str(tok.s)]
    ELSE IF tok = Lit("true") THEN [ok |-> TRUE, value |-> Bool(TRUE)]
    ELSE IF tok = Lit("false") THEN [ok |-> TRUE, value |-> Bool(FALSE)]
    ELSE IF tok = Lit("null") THEN [ok |-> TRUE, value |-> Null]
    ELSE [ok |-> FALSE, value |-> Undef]

SyntaxError == [ok |-> FALSE, value |-> Undef]

\* JSON.parse inside an object, at the name of member i: name, colon,
\* value, then a comma and the next member or the closing brace at the end
RECURSIVE parseMembers(_, _, _)
parseMembers(toks, i, acc) ==
    IF i + 3 > Len(toks) THEN SyntaxError
    ELSE IF toks[i].k # "string" \/ toks[i + 1] # Punct(":") \/ ~parseScalar(toks[i + 2]).ok
    THEN SyntaxError
    ELSE IF toks[i + 3] = Punct("}")
    THEN IF i + 3 = Len(toks)
         THEN [ok |-> TRUE, value |-> SetProp(acc, toks[i].s, parseScalar(toks[i + 2]).value)]
         ELSE SyntaxError
    ELSE IF toks[i + 3] = Punct(",")
    THEN parseMembers(toks, i + 4, SetProp(acc, toks[i].s, parseScalar(toks[i + 2]).value))
    ELSE SyntaxError

\* res.json(): JSON.parse of the body, for scalars and flat objects
parseJson(toks) ==
    IF toks = << >> THEN SyntaxError
    ELSE IF Len(toks) = 1 THEN parseScalar(toks[1])
    ELSE IF toks[1] # Punct("{") THEN SyntaxError
    ELSE IF Len(toks) = 2 THEN (IF toks[2] = Punct("}") THEN [ok |-> TRUE, value |-> EmptyObj]
                                ELSE SyntaxError)
    ELSE parseMembers(toks, 2, EmptyObj)

\* every status passes: the check of res.ok is missing
anyStatusOk(status) == TRUE

\* res.ok
responseOk(status) == status \in 200..299

\* the text of a scalar
ScalarTok(x) ==
    IF x.t = "string" THEN StrTok(x.v)
    ELSE IF x = Null THEN Lit("null")
    ELSE IF x = Bool(TRUE) THEN Lit("true")
    ELSE Lit("false")

\* the text of the members of object o whose names are in the sequence ks
RECURSIVE MemberText(_, _)
MemberText(o, ks) ==
    IF ks = << >> THEN << >>
    ELSE IF Head(ks) \notin DOMAIN o.v THEN MemberText(o, Tail(ks))
    ELSE <<Punct(","), StrTok(Head(ks)), Punct(":"), ScalarTok(o.v[Head(ks)])>>
         \o MemberText(o, Tail(ks))

SettingsNames == <<N("defaultLanguage"), N("defaultTheme"), N("defaultAutoplay")>>

\* the text of a flat object
ObjectText(o) ==
    <<Punct("{")>>
    \o (IF MemberText(o, SettingsNames) = << >> THEN << >>
        ELSE Tail(MemberText(o, SettingsNames)))
    \o <<Punct("}")>>

\* the values a settings.json may give a field: a valid one, an invalid
\* one, null
FieldChoices(k) ==
    IF k = N("defaultLanguage") THEN {T("pl"), Null}
    ELSE IF k = N("defaultTheme") THEN {T("light"), T("blue"), Null}
    ELSE {Bool(TRUE), T("yes"), Null}

SettingsObjects ==
    UNION { { Obj(f) : f \in { g \in [D -> {T("pl"), T("light"), T("blue"), T("yes"),
                                            Bool(TRUE), Null}] :
                                 \A k \in D : g[k] \in FieldChoices(k) } } :
            D \in SUBSET { SettingsNames[j] : j \in 1..3 } }

\* bodies that are not JSON: empty, cut short, a trailing comma, a bare
\* word, a member without a name
MalformedTexts ==
    { << >>,
      <<Punct("{")>>,
      <<Punct("{"), StrTok(N("defaultTheme")), Punct(":"), StrTok(<<"light">>)>>,
      <<Punct("{"), StrTok(N("defaultTheme")), Punct(":"), StrTok(<<"light">>),
        Punct(","), Punct("}")>>,
      <<Lit("undefined")>>,
      <<Punct("{"), Lit("true"), Punct("}")>> }

\* a body and, for the claims, what it means
Bodies ==
    { [text |-> ObjectText(o), wellFormed |-> TRUE, means |-> o] : o \in SettingsObjects }
    \cup { [text |-> <<Lit("null")>>, wellFormed |-> TRUE, means |-> Null] }
    \cup { [text |-> t, wellFormed |-> FALSE, means |-> Undef] : t \in MalformedTexts }

SettingsPath == <<"settings.json">>
Paths == { SettingsPath, <<"content/en.json">> }
Statuses == { 200, 299, 300, 404 }

otherPageVars == <<strings, profile, projects, lang, dom, pc, pending,
                   fileProjects, rawStrings, last, fetched, world, theme>>

InitLoad ==
    /\ call \in [ step : {"called"}, path : Paths, net : {"answered", "failed"},
                  status : Statuses, body : Bodies, result : {Undef}, fetches : {0} ]
    /\ settings = DEFAULT_SETTINGS /\ strings = EmptyObj /\ profile = EmptyObj
    /\ projects = Arr(<< >>) /\ lang = Null /\ dom = InitialDom /\ pc = "loading"
    /\ pending = [k \in TaskKinds |-> 0] /\ fileProjects = Arr(<< >>)
    /\ rawStrings = EmptyObj /\ last = NothingDone
    /\ fetched = NothingFetched /\ world = PatientWorld /\ theme = NoTheme
    /\ doc = Null /\ prof = EmptyObj /\ out = << >>

\* const res = await fetch(path, ...): the promise is fulfilled with a
\* response or rejected
Fetch ==
    /\ call.step = "called"
    /\ call' = [call EXCEPT !.fetches = @ + 1,
                            !.step = IF call.net = "failed" THEN "caught" ELSE "answered"]
    /\ UNCHANGED <<settings, otherPageVars, resolveVars>>

\* if (!res.ok) throw new Error(...)
CheckOk ==
    /\ call.step = "answered"
    /\ call' = [call EXCEPT !.step = IF responseOk(call.status) THEN "reading" ELSE "caught"]
    /\ UNCHANGED <<settings, otherPageVars, resolveVars>>

\* return await res.json()
ReadJson ==
    /\ call.step = "reading"
    /\ call' = IF parseJson(call.body.text).ok
               THEN [call EXCEPT !.step = "returned",
                                 !.result = parseJson(call.body.text).value]
               ELSE [call EXCEPT !.step = "caught"]
    /\ UNCHANGED <<settings, otherPageVars, resolveVars>>

\* catch (err) { console.warn(...); return null }
Catch ==
    /\ call.step = "caught"
    /\ call' = [call EXCEPT !.step = "returned", !.result = Null]
    /\ UNCHANGED <<settings, otherPageVars, resolveVars>>

\* loadSettingsAndContent, lines 462-463, after loadJson('settings.json')
\* has returned
AssignSettings ==
    /\ call.step = "returned"
    /\ call.path = SettingsPath
    /\ settings' = mergeSettings(call.result)
    /\ call' = [call EXCEPT !.step = "assigned"]
    /\ UNCHANGED <<otherPageVars, resolveVars>>

NextLoad == Fetch \/ CheckOk \/ ReadJson \/ Catch \/ AssignSettings

SpecLoad == InitLoad /\ [][NextLoad]_vars

(***************************************************************************)
(* Claims about the loader and the settings                                *)
(***************************************************************************)
\* what the claim lets loadJson return for the answer drawn
ExpectedResult ==
    IF call.net = "answered" /\ call.status \in 200..299 /\ call.body.wellFormed
    THEN call.body.means
    ELSE Null

\* C14: loadJson never raises to its caller: every call ends by returning,
\* the parsed value when the fetch succeeds with a success status and a
\* well-formed body, null after a fetch failure, a non-success status or a
\* malformed body; it fetches exactly once.
C14_LoadJsonReturnsValueOrNull ==
    /\ call.step \in {"called", "answered", "reading", "caught", "returned", "assigned"}
    /\ call.fetches <= 1
    /\ call.step \in {"returned", "assigned"} =>
           /\ call.fetches = 1
           /\ call.result = ExpectedResult

\* a body that is not JSON arrived with status 200 and the call returned null
C14_Witness ==
    /\ call.step = "returned"
    /\ call.net = "answered" /\ call.status = 200 /\ ~call.body.wellFormed
    /\ call.body.text # << >>
    /\ call.result = Null /\ call.fetches = 1

\* a value settings.json may give the field named k
ValidSetting(k, x) ==
    IF k = N("defaultLanguage") THEN x.t = "string" /\ x.v # << >>
    ELSE IF k = N("defaultTheme") THEN x \in {T("light"), T("dark")}
    ELSE x.t = "boolean"

\* C20: after settings are loaded, each of defaultLanguage, defaultTheme
\* and defaultAutoplay holds the loaded value when it is present and valid
\* and the hardcoded default when it is missing or invalid, also when
\* settings.json fails to load.
C20_SettingsValidated ==
    call.step = "assigned" =>
        \A j \in 1..3 :
            Prop(settings, SettingsNames[j]) =
                IF /\ call.result.t = "object"
                   /\ SettingsNames[j] \in DOMAIN call.result.v
                   /\ ValidSetting(SettingsNames[j], call.result.v[SettingsNames[j]])
                THEN call.result.v[SettingsNames[j]]
                ELSE DEFAULT_SETTINGS.v[SettingsNames[j]]

(***************************************************************************)
(* Claims about the content assembly and the locale change                 *)
(***************************************************************************)
\* the document the loads recorded in fetched should have given strings
ChosenDocument ==
    IF Truthy(fetched.content) THEN fetched.content
    ELSE IF fetched.template # NotAsked /\ Truthy(fetched.template) THEN fetched.template
    ELSE EmptyObj

\* a card without its selection state
CardFace(card) == [card EXCEPT !.active = FALSE, !.ariaPressed = NoAttr]

\* the cards on the page are the ones made of the current projects and strings
CardsRendered(d, projs, strs) ==
    /\ Len(d.cards) = Len(projs.v)
    /\ \A j \in DOMAIN d.cards :
         CardFace(d.cards[j]) = buildProjectCard(projs.v[j], j - 1, strs)

\* every locale change asked for has been finished, one of them for "en"
EnglishChangeDone ==
    /\ pc = "ready" /\ lang = T("en") /\ PendingCount = 0 /\ last.op = "render"

\* C11: at startup and on every locale change the strings document is the
\* one of content/<locale>.json when that load succeeds, the template when
\* it returns null (the template is then asked for, and only then), and
\* an empty mapping when the template fails too; in all three cases
\* strings is that document resolved and the cards are rendered from it.
C11_StringsFromFallbackChain ==
    pc \in {"loaded", "ready"} =>
        /\ rawStrings = ChosenDocument
        /\ (fetched.template = NotAsked) <=> Truthy(fetched.content)
        /\ strings = withAliases(replacePlaceholders(ChosenDocument, profile), profile)
        /\ pc = "ready" => CardsRendered(dom, projects, strings)

\* a locale change found neither its document nor the template and still
\* rendered the cards, from an empty mapping
C11_Witness ==
    /\ EnglishChangeDone
    /\ fetched.content = Null /\ fetched.template = Null
    /\ rawStrings = EmptyObj
    /\ dom.cards # << >>

\* a step in which an applyLanguageChange call runs to its end
ChangeCompletes ==
    /\ pc = "ready"
    /\ last'.op = "render"
    /\ \E v \in Langs :
         \/ pending'[<<v, "template">>] < pending[<<v, "template">>]
         \/ /\ pending'[<<v, "content">>] < pending[<<v, "content">>]
            /\ pending'[<<v, "template">>] = pending[<<v, "template">>]

\* C12: after every completed locale change all project cards have been
\* rebuilt and the active project (the first active card, whose title and
\* description the panels show) is the first project in list order,
\* whichever project was active before.
C12_FirstProjectActiveAfterChange ==
    [][ChangeCompletes =>
          /\ CardsRendered(dom', projects', strings')
          /\ FirstActive(dom') = 1
          /\ dom'.selTitle = AttrOrEmpty(dom'.cards[1].title)
          /\ dom'.selDesc = AttrOrEmpty(dom'.cards[1].long)]_vars

\* a change to Polish has been finished and the first of the Polish
\* projects is active; the iframe still holds the URL of the second
\* project of the file list, which the user had selected before
C12_Witness ==
    /\ pc = "ready" /\ lang = T("pl") /\ PendingCount = 0 /\ last.op = "render"
    /\ fetched.content = PlDoc
    /\ dom.cards # << >>
    /\ FirstActive(dom) = 1
    /\ dom.cards[1].projectId = T("s1")
    /\ dom.iframeSrc = YoutuBeUrl

\* the keys that hold text in the template and are absent from document d
TemplateOnlyKeys(d) ==
    { k \in DOMAIN TemplateDoc.v : TemplateDoc.v[k].t = "string" /\ k \notin DOMAIN d.v }

\* C13: content/template.json is the fallback for missing language keys:
\* a key absent from the active locale's document and present in the
\* template resolves to the template's value.
C13_TemplateIsKeyFallback ==
    (pc \in {"loaded", "ready"} /\ Truthy(fetched.content)) =>
        \A k \in TemplateOnlyKeys(fetched.content) :
            textValue(strings, k) = replacePlaceholders(TemplateDoc.v[k], profile)

\* a step of a locale change under way: one of its loads is answered
LoadAnswered ==
    \E k \in TaskKinds : pending'[k] < pending[k]

\* C15 as stated: a locale-change handler performs all its mutations
\* (persisted lang, strings, projects) and the full re-render before any
\* other handler runs: from its start to the end of its re-render every
\* step is its own.
C15_NoHandlerDuringChange ==
    [][PendingCount > 0 => LoadAnswered]_vars

\* C15 as amended: once its document is loaded, a locale change assigns
\* strings and projects and re-renders the cards in one turn: no step
\* changes strings or projects and leaves cards that are not built from
\* the new ones.
C15_MutationAndRenderInOneTurn ==
    [][(pc = "ready" /\ (strings' # strings \/ projects' # projects \/ rawStrings' # rawStrings))
          => /\ LoadAnswered
             /\ last'.op = "render"
             /\ CardsRendered(dom', projects', strings')]_vars

\* a change to English has replaced Polish strings and the project list
\* the Polish document had brought
C15_Witness ==
    /\ EnglishChangeDone
    /\ fetched.content = EnDoc
    /\ rawStrings = EnDoc
    /\ \E j \in DOMAIN projects.v : Prop(projects.v[j], N("id")) = T("s1")
    /\ CardsRendered(dom, projects, strings)

(***************************************************************************)
(* Claims about the embed timeout and the open-demo link                   *)
(***************************************************************************)
\* a step in which the oldest timeout fires
TimerFires == Len(dom'.timers) < Len(dom.timers)

\* the call t embedded a URL of no video provider and has heard no load
FailedExternalEmbed(t) ==
    /\ t.status # "loaded"
    /\ StartsWith(t.id, <<"http">>)
    /\ ParseURL(t.id).ok
    /\ ~\E p \in VideoProviders : Includes(ParseURL(t.id).hostname, p)

\* C16: when the embed of an external URL of no video provider (a
\* whitelisted partner host) has had no load event when its timeout fires
\* after 1.6 s, the timeout handler clears the iframe src and reveals the
\* still image when the project has one.
C16_FailedEmbedFallsBack ==
    [][(/\ TimerFires
        /\ FailedExternalEmbed(Head(dom.timers))
        /\ dom.iframeSrc = Head(dom.timers).id)
          => /\ dom'.iframeSrc = << >>
             /\ imageOf(dom, FirstActive(dom)) # << >>
                  => /\ ~dom'.imgHidden
                     /\ dom'.imgSrc = imageOf(dom, FirstActive(dom))]_vars

StaleTimerFires ==
    /\ TimerFires
    /\ last.op = "select"
    /\ FirstActive(dom) = last.card
    /\ cardVid(dom.cards[last.card]) # Head(dom.timers).id

\* what the visitor sees of the media: iframe, still image, open-demo link
MediaShown(d) ==
    <<d.iframeSrc, d.imgSrc, d.imgHidden, d.demoHidden, d.demoHref, d.demoText>>

Bare(card) == cardVid(card) = << >> /\ AttrOrEmpty(card.image) = << >>

\* a handler has just selected a card without media: a user selection, the
\* initial render, or the render that ends a locale change
BareJustSelected ==
    /\ pc = "ready" /\ last.op \in {"select", "render"}
    /\ last.card # 0 /\ last.card = FirstActive(dom)
    /\ Bare(dom.cards[last.card])

\* C19: whenever a project with no media identity and no still image
\* becomes the selected project, by a user selection, the initial render or
\* the re-selection of the first project after a locale change, the iframe
\* src is empty and the open-demo link is hidden.
C19_NoMediaClearsSurface ==
    BareJustSelected => dom.iframeSrc = << >> /\ dom.demoHidden

(***************************************************************************)
(* Claims about the panels of the selected project                         *)
(***************************************************************************)
\* C25: for every project list, media identities repeated or not, after a
\* user selects a card the title and description panels show that card's
\* title and long description, that card and no other is highlighted, and
\* the open-demo link is the one of that card.
C25_PanelsFollowSelectedCard ==
    (pc = "ready" /\ last.op = "select") =>
        /\ ActiveCards(dom) = {last.card}
        /\ dom.selTitle = AttrOrEmpty(dom.cards[last.card].title)
        /\ dom.selDesc = AttrOrEmpty(dom.cards[last.card].long)
        /\ dom.demoHidden = ~showDemoFor(dom.cards[last.card])

(***************************************************************************)
(* The theme: applyTheme at startup and the toggle's click handler         *)
(*                                                                         *)
(* theme is a record: step ("start" before init applies the theme,         *)
(* "ready" after), op (what ran last: "none", "apply", "click"), stored    *)
(* (localStorage 'theme': null or a string), bodyDark (body has class      *)
(* dark), htmlLight (html has class light), pressed (aria-pressed of the   *)
(* toggle), glyph (its text)                                               *)
(***************************************************************************)
\* only the body's class is set
applyThemeBodyOnly(th, t) == [th EXCEPT !.bodyDark = (t # T("light"))]

\* applyTheme(theme), lines 24-38
applyTheme(th, t) ==
    IF t = T("light")
    THEN [th EXCEPT !.bodyDark = FALSE, !.htmlLight = TRUE,
                    !.glyph = "sun", !.pressed = "false"]
    ELSE [th EXCEPT !.bodyDark = TRUE, !.htmlLight = FALSE,
                    !.glyph = "moon", !.pressed = "true"]

\* the click handler of the toggle, lines 585-597
toggleTheme(th) ==
    IF ~th.bodyDark
    THEN [th EXCEPT !.bodyDark = TRUE, !.htmlLight = FALSE, !.glyph = "moon",
                    !.pressed = "true", !.stored = T("dark")]
    ELSE [th EXCEPT !.bodyDark = FALSE, !.htmlLight = TRUE, !.glyph = "sun",
                    !.pressed = "false", !.stored = T("light")]

\* localStorage.getItem('theme') || settings.defaultTheme
savedTheme(th, sett) == Or(th.stored, Prop(sett, N("defaultTheme")))

\* what localStorage 'theme' can hold when the page starts
StoredThemes == { Null, T("light"), T("dark"), EmptyStr, T("blue") }

\* what settings.json can say about the theme
ThemeSettingsFiles ==
    { Null, Rec([defaultTheme |-> T("light")]), Rec([defaultTheme |-> T("dark")]),
      Rec([defaultTheme |-> Null]), Rec([defaultTheme |-> T("auto")]) }

\* settings are loaded; the markers are as the page shell has them
InitTheme ==
    /\ theme \in [ step : {"start"}, op : {"none"}, stored : StoredThemes,
                    bodyDark : BOOLEAN, htmlLight : BOOLEAN,
                    pressed : {"none", "true", "false"}, glyph : {"none"} ]
    /\ settings \in { mergeSettings(sf) : sf \in ThemeSettingsFiles }
    /\ strings = EmptyObj /\ profile = EmptyObj
    /\ projects = Arr(<< >>) /\ lang = Null /\ dom = InitialDom /\ pc = "loaded"
    /\ pending = [k \in TaskKinds |-> 0] /\ fileProjects = Arr(<< >>)
    /\ rawStrings = EmptyObj /\ last = NothingDone
    /\ fetched = NothingFetched /\ world = PatientWorld
    /\ doc = Null /\ prof = EmptyObj /\ out = << >> /\ call = NoCall

\* init, lines 522-524
ApplySavedTheme ==
    /\ theme.step = "start"
    /\ theme' = [applyTheme(theme, savedTheme(theme, settings))
                   EXCEPT !.step = "ready", !.op = "apply"]
    /\ UNCHANGED <<settings, strings, profile, projects, lang, dom, pc, pending,
                   fileProjects, rawStrings, last, fetched, doc, prof, out, call, world>>

\* a click on the theme toggle
ThemeClick ==
    /\ theme.step = "ready"
    /\ theme' = [toggleTheme(theme) EXCEPT !.op = "click"]
    /\ UNCHANGED <<settings, strings, profile, projects, lang, dom, pc, pending,
                   fileProjects, rawStrings, last, fetched, doc, prof, out, call, world>>

NextTheme ==
    \/ ApplySavedTheme
    \/ ThemeClick

SpecTheme == InitTheme /\ [][NextTheme]_vars

\* the theme the page displays
Displayed(th) == IF th.bodyDark THEN T("dark") ELSE T("light")

\* body has class dark exactly when html lacks class light and the
\* toggle's aria-pressed is 'true'
MarkersAgree(th) ==
    /\ th.bodyDark = ~th.htmlLight
    /\ th.bodyDark = (th.pressed = "true")
    /\ ~th.bodyDark = (th.pressed = "false")

\* C21: after startup and after any number of clicks on the toggle the
\* theme markers agree with each other; at startup the persisted theme,
\* else settings.defaultTheme, is applied when it is 'light' or 'dark';
\* each click flips the displayed theme and stores the theme displayed.
C21_ThemeBinaryAndPersisted ==
    /\ [](theme.step = "ready" => MarkersAgree(theme))
    /\ [][(theme.step = "start" /\ theme'.step = "ready"
            /\ savedTheme(theme, settings) \in {T("light"), T("dark")})
              => Displayed(theme') = savedTheme(theme, settings)]_vars
    /\ [][(theme.step = "ready" /\ theme'.step = "ready")
              => /\ Displayed(theme') # Displayed(theme)
                 /\ theme'.stored = Displayed(theme')]_vars

\* the theme was clicked to light on a page whose default is dark
C21_Witness ==
    /\ theme.step = "ready" /\ theme.op = "click"
    /\ Prop(settings, N("defaultTheme")) = T("dark")
    /\ theme.stored = T("light")
    /\ ~theme.bodyDark /\ theme.htmlLight /\ theme.pressed = "false"

(***************************************************************************)
(* Claims about scrolling and focus                                        *)
(***************************************************************************)
\* C22: the initial render and the re-render of a locale change neither
\* scroll the showcase into view nor move the focus, and nor does an embed
\* timeout; only a click or Enter/Space on a project card does.
C22_OnlySelectionScrollsAndFocuses ==
    (last.scrolled \/ last.focus # "none") =>
        (last.op = "select" /\ last.fired = NoTimer)

\* a locale change has been finished after a user selection: the first
\* card was made active again, without scroll or focus
C22_Witness ==
    /\ pc = "ready" /\ last.op = "render" /\ PendingCount = 0
    /\ fetched.content = EnDoc
    /\ FirstActive(dom) = 1
    /\ dom.iframeSrc = KronosUrl
    /\ ~last.scrolled /\ last.focus = "none"

\* C23: on a user selection the focus goes to the open-demo link when the
\* link is visible for the selected project, and to the iframe when the
\* link is hidden.
C23_FocusTarget ==
    (pc = "ready" /\ last.op = "select") =>
        last.focus = IF showDemoFor(dom.cards[last.card]) THEN "projectDemoLink"
                     ELSE "ytFrame"

(***************************************************************************)
(* Claims about the texts, the sample projects and the loading state       *)
(***************************************************************************)
\* C24: after a locale change every text element bound to a string key
\* (data-i18n, hero title) whose key is absent from the new strings is
\* empty or shows the raw key, never the text of the locale before.
C24_MissingKeyLeavesNoOldText ==
    (pc = "ready" /\ last.op = "render") =>
        /\ \A k \in DOMAIN dom.texts :
             ~Truthy(textValue(strings, k)) => dom.texts[k] \in { << >>, k }
        /\ ~Truthy(Prop(strings, N("hero_title")))
             => dom.hero \in { << >>, N("hero_title") }

\* the items of projs are the two samples
IsSampleList(projs) ==
    /\ projs.t = "array" /\ Len(projs.v) = 2
    /\ Prop(projs.v[1], N("id")) = T("sample1")
    /\ Prop(projs.v[1], N("titleKey")) = T("proj1_title")
    /\ Prop(projs.v[1], N("descKey")) = T("proj1_desc")
    /\ Prop(projs.v[2], N("id")) = T("sample2")
    /\ Prop(projs.v[2], N("titleKey")) = T("proj2_title")
    /\ Prop(projs.v[2], N("descKey")) = T("proj2_desc")

\* C26: when projects.json is answered with null or with something that
\* is no array, and the strings document brings no non-empty projects
\* array, the project list after assembly is the two-item sample list; the
\* list is never empty once assembly has finished.
C26_SamplesWhenNoProjects ==
    pc # "loading" =>
        /\ projects.t = "array" /\ projects.v # << >>
        /\ (pc = "loaded" /\ ~HasProjects(rawStrings)
              /\ \A p \in world.projects : p.t # "array")
             => IsSampleList(projects)

\* projects.json was answered with an object that is no array, the
\* strings bring no projects, and the list is the sample list
C26_Witness ==
    /\ pc = "loaded"
    /\ world.projects = { Rec([error |-> T("oops")]) }
    /\ ~HasProjects(rawStrings)
    /\ rawStrings = EnDoc
    /\ IsSampleList(projects)

\* C27: once every requested locale change has completed, the strings in
\* memory, the rendered hero title and the pressed language button are
\* those of the persisted 'lang', the locale requested last.
C27_LastRequestedLocaleWins ==
    (pc = "ready" /\ lang # Null /\ PendingCount = 0) =>
        /\ fetched.content \in ContentFiles(ToStr(lang))
        /\ dom.pressed = { ToStr(lang) }

\* init() is in progress
InitInProgress == pc \in {"loading", "loaded"}

\* C28: the loading state set at DOMContentLoaded stays set while init()
\* is in progress and is removed in the end in every execution, when init
\* completes and when init throws.
C28_LoadingStateEnds ==
    /\ [](InitInProgress => dom.busy)
    /\ <>[](~dom.busy)

\* init() has thrown and the loading state is removed
C28_Witness == pc = "failed" /\ ~dom.busy /\ dom.cards = << >>

=============================================================================
